---- MODULE Spec2Model ----
(***************************************************************************)
(* A model of dbutils/helpers.py: queryset_to_dict, distinct,              *)
(* attach_foreignkey, attach_foreignkeys and attach_profile.               *)
(*                                                                         *)
(* Owner objects are Python objects: a record of attributes read with      *)
(* getattr and written with setattr.  The ORM (model.objects.filter(...)   *)
(* .using(...).select_related(...)) is the external data source: what it   *)
(* holds at the moment of a fetch is an input of the call.                 *)
(***************************************************************************)
EXTENDS Integers, Sequences, FiniteSets, TLC

\* ------------------------------------------------------------- bounds
NumOwners == 2
MaxKey == 2
MaxLen == 3

Owners == 1..NumOwners
Keys == 1..MaxKey

\* ------------------------------------------------------------- values
\* Python None where a key is expected (a NULL foreign key).
Null == 0
\* getattr(o, accessor, False) of an attribute that was never set.
Unset == [kind |-> "unset"]
\* Python None in a cache slot, and the default of dict.get.
NoneVal == [kind |-> "none"]

Range(s) == {s[i] : i \in DOMAIN s}

\* A row of User or Thread (looked up by pk).
Row(model, pk, nested) == [kind |-> "rec", model |-> model, pk |-> pk, nested |-> nested]
\* The primary key of the Detail (or profile) row of owner k: not the owner's own.
DetailPk(k) == MaxKey + 1 - k
\* A row of Detail, the one-to-one model whose field "post" points at the owner.
DetailRow(k, nested) ==
  [kind |-> "rec", model |-> "Detail", pk |-> DetailPk(k), post_id |-> k, nested |-> nested]

\* ------------------------------------------------------ the descriptors
\* Post.author, Post.thread: forward foreign keys (field.field is the ForeignKey).
AuthorField == [single |-> FALSE, name |-> "author", column |-> "author_id", model |-> "User"]
ThreadField == [single |-> FALSE, name |-> "thread", column |-> "thread_id", model |-> "Thread"]
\* Post.detail: a SingleRelatedObjectDescriptor (reverse one-to-one);
\* field.related.field is Detail.post.
DetailField ==
  [single |-> TRUE, cache_name |-> "_detail_cache", name |-> "post", column |-> "post_id",
   model |-> "Detail"]

\* "_%s_cache" % field.name
CacheOf(name) == "_" \o name \o "_cache"

\* attach_foreignkey, lines 33-48: what the two branches bind.
Accessor(field) == IF ~field.single THEN CacheOf(field.name) ELSE field.cache_name
Lookup(field) == IF ~field.single THEN "pk" ELSE field.name
Column(field) == IF ~field.single THEN field.column ELSE "pk"
Key(field) == IF ~field.single THEN "pk" ELSE field.column

\* ------------------------------------------------------ queryset_to_dict
\* SetDefault as result[k] = u: a later row replaces the earlier one.
SetOverwrite(d, k, u) == [x \in DOMAIN d \cup {k} |-> IF x = k THEN u ELSE d[x]]

\* result.setdefault(k, u)
SetDefault(d, k, u) ==
  IF k \in DOMAIN d THEN d ELSE [x \in DOMAIN d \cup {k} |-> IF x = k THEN u ELSE d[x]]

\* result[k].append(u) on a defaultdict(list)
AppendTo(d, k, u) ==
  [x \in DOMAIN d \cup {k} |->
     IF x = k THEN (IF k \in DOMAIN d THEN Append(d[k], u) ELSE <<u>>) ELSE d[x]]

\* The empty dict.
EmptyDict == [x \in {} |-> NoneVal]

RECURSIVE DictLoop(_, _, _, _, _)
DictLoop(qs, key, singular, i, result) ==
  IF i > Len(qs) THEN result
  ELSE DictLoop(qs, key, singular, i + 1,
                IF singular THEN SetDefault(result, qs[i][key], qs[i])
                ELSE AppendTo(result, qs[i][key], qs[i]))

queryset_to_dict(qs, key, singular) == DictLoop(qs, key, singular, 1, EmptyDict)

\* dict.get(k): the value, or None.
Get(d, k) == IF k \in DOMAIN d THEN d[k] ELSE NoneVal

\* ------------------------------------------------------------- distinct
\* list(set(l)): the order is not used by any caller, so the set itself.
distinct(l) == Range(l)

\* ------------------------------------------------------ the data source
RECURSIVE Ascending(_)
\* The keys of a set, in ascending order.
Ascending(S) ==
  IF S = {} THEN <<>>
  ELSE LET m == CHOOSE x \in S : \A y \in S : x <= y IN <<m>> \o Ascending(S \ {m})

\* model.objects.filter(**{lookup + "__in": values}).using(database), with
\* select_related(*related) when related is given, once it is iterated: the rows of
\* model whose lookup value is among values.  present is what the table holds at
\* that moment (a NULL matches no row).
Fetch(model, lookup, values, related, present) ==
  LET hit == Ascending((values \cap present) \ {Null}) IN
  [i \in DOMAIN hit |->
     IF model = "Detail" THEN DetailRow(hit[i], related # <<>>)
     ELSE Row(model, hit[i], related # <<>>)]

\* The request a fetch makes, as the data source sees it.
Request(model, lookup, values, related) ==
  [model |-> model, lookup |-> lookup, values |-> values, related |-> related]

\* ------------------------------------------------------------ the state
VARIABLES
  objs,    \* the owner objects: their columns and their cache slots
  field,   \* the descriptor the caller attaches with (Post.author or Post.detail)
  call,    \* the call being observed: arguments, requests to the data source, outcome
  qs,      \* the sequence handed to queryset_to_dict
  result   \* what queryset_to_dict returned
vars == <<objs, field, call, qs, result>>

\* An owner as the ORM hands it out: no cache slot set yet.
NewOwner(pk, author_id) ==
  [pk |-> pk, author_id |-> author_id, thread_id |-> Null,
   _author_cache |-> Unset, _thread_cache |-> Unset, _detail_cache |-> Unset]

\* No call is being observed.
NoCall == [op |-> "none"]

\* ----------------------------------------------------- attach_foreignkey
\* Scanned without the test of the cache slot: every owner is kept.
ScannedAll(st, objects, accessor, related) == objects

\* Scanned without the test of related: the owners already set are always skipped.
ScannedUnsetOnly(st, objects, accessor, related) ==
  SelectSeq(objects, LAMBDA o : st[o][accessor] = Unset)

\* Line 52: the owners the generator keeps.
Scanned(st, objects, accessor, related) ==
  SelectSeq(objects, LAMBDA o : related # <<>> \/ st[o][accessor] = Unset)

\* Line 52: values.
ScannedValues(st, objects, column, accessor, related) ==
  LET kept == Scanned(st, objects, accessor, related) IN
  distinct([i \in DOMAIN kept |-> st[kept[i]][column]])

RECURSIVE SetLoopMatched(_, _, _, _, _, _)
\* SetLoop that sets only the owners with a matching row.
SetLoopMatched(st, objects, accessor, column, queryset, i) ==
  IF i > Len(objects) THEN st
  ELSE LET o == objects[i] IN
       SetLoopMatched(
         IF st.objs[o][column] \in DOMAIN queryset
         THEN [objs |-> [st.objs EXCEPT ![o][accessor] = queryset[st.objs[o][column]]],
               writes |-> Append(st.writes, <<o, accessor>>)]
         ELSE st,
         objects, accessor, column, queryset, i + 1)

RECURSIVE SetLoop(_, _, _, _, _, _)
\* Lines 61-62: for o in objects: setattr(o, accessor, queryset.get(getattr(o, column)))
\* st.objs are the objects, st.writes the setattr calls made so far.
SetLoop(st, objects, accessor, column, queryset, i) ==
  IF i > Len(objects) THEN st
  ELSE LET o == objects[i] IN
       SetLoop([objs |-> [st.objs EXCEPT ![o][accessor] = Get(queryset, st.objs[o][column])],
                writes |-> Append(st.writes, <<o, accessor>>)],
               objects, accessor, column, queryset, i + 1)

\* NoValues without the early return.
NoValuesNever(values) == FALSE

\* Lines 53 and 90: if not values.
NoValues(values) == values = {}

\* Raised with the query tried a second time before giving up.
RaisedAfterRetry(st, request) ==
  [objs |-> st, fetches |-> <<request, request>>, rows |-> <<>>, writes |-> <<>>,
   outcome |-> "DatabaseError", message |-> <<>>]

\* The query fails: the exception leaves the call from the iteration of qs inside
\* queryset_to_dict (lines 60 and 96), which no handler surrounds.
Raised(st, request) ==
  [objs |-> st, fetches |-> <<request>>, rows |-> <<>>, writes |-> <<>>,
   outcome |-> "DatabaseError", message |-> <<>>]

\* attach_foreignkey(objects, field, related): the objects after the call, the
\* requests made of the data source, the rows it returned, the setattr calls and how
\* the call ended.  present and ok are the data source's: what it holds, and whether
\* the query succeeds.
attach_foreignkey(st, objects, fld, related, present, ok) ==
  LET accessor == Accessor(fld)
      column == Column(fld)
      values == ScannedValues(st, objects, column, accessor, related)
      request == Request(fld.model, Lookup(fld), values, related)
      rows == Fetch(fld.model, Lookup(fld), values, related, present)
      queryset == queryset_to_dict(rows, Key(fld), TRUE)
      set == SetLoop([objs |-> st, writes |-> <<>>], objects, accessor, column, queryset, 1)
  IN  IF NoValues(values)
      THEN [objs |-> st, fetches |-> <<>>, rows |-> <<>>, writes |-> <<>>,
            outcome |-> "return", message |-> <<>>]
      ELSE IF ~ok
      THEN Raised(st, request)
      ELSE [objs |-> set.objs, fetches |-> <<request>>, rows |-> rows,
            writes |-> set.writes, outcome |-> "return", message |-> <<>>]

\* ---------------------------------------------------- attach_foreignkeys
\* Line 79: model = None.
NoModel == "None"

RECURSIVE ScanLoopUnchecked(_, _, _, _, _)
\* ScanLoop without the comparison of the models: the first group's model is kept.
ScanLoopUnchecked(st, object_sets, related, i, acc) ==
  IF i > Len(object_sets) THEN acc
  ELSE LET fld == object_sets[i].field IN
       ScanLoopUnchecked(st, object_sets, related, i + 1,
         [acc EXCEPT
            !.model = IF acc.model = NoModel THEN fld.model ELSE acc.model,
            !.values = @ \cup ScannedValues(st, object_sets[i].objects, fld.column,
                                            CacheOf(fld.name), related)])

RECURSIVE ScanLoopLast(_, _, _, _, _)
\* ScanLoop with values assigned, not updated: only the last group's are kept.
ScanLoopLast(st, object_sets, related, i, acc) ==
  IF i > Len(object_sets) THEN acc
  ELSE LET fld == object_sets[i].field
           to == fld.model
       IN  IF acc.model # NoModel /\ acc.model # to
           THEN [acc EXCEPT !.error = <<acc.model, to>>]
           ELSE ScanLoopLast(st, object_sets, related, i + 1,
                  [acc EXCEPT
                     !.model = to,
                     !.values = ScannedValues(st, object_sets[i].objects, fld.column,
                                              CacheOf(fld.name), related)])

RECURSIVE ScanLoop(_, _, _, _, _)
\* Lines 81-88: the first loop over object_sets.  acc.model is model (NoModel until
\* the first group), acc.values the set built so far; the loop stops at the first
\* group whose field.field.rel.to differs, with acc.error the two models.
ScanLoop(st, object_sets, related, i, acc) ==
  IF i > Len(object_sets) THEN acc
  ELSE LET fld == object_sets[i].field
           to == fld.model
       IN  IF acc.model # NoModel /\ acc.model # to
           THEN [acc EXCEPT !.error = <<acc.model, to>>]
           ELSE ScanLoop(st, object_sets, related, i + 1,
                  [acc EXCEPT
                     !.model = to,
                     !.values = @ \cup ScannedValues(st, object_sets[i].objects, fld.column,
                                                     CacheOf(fld.name), related)])

\* What lines 77-88 leave in model and values.
ScanGroups(st, object_sets, related) ==
  ScanLoop(st, object_sets, related, 1, [model |-> NoModel, values |-> {}, error |-> <<>>])

RECURSIVE SetGroups(_, _, _, _)
\* Lines 98-100: the second loop over object_sets.
SetGroups(st, object_sets, queryset, i) ==
  IF i > Len(object_sets) THEN st
  ELSE LET fld == object_sets[i].field IN
       SetGroups(SetLoop(st, object_sets[i].objects, CacheOf(fld.name), fld.column, queryset, 1),
                 object_sets, queryset, i + 1)

\* attach_foreignkeys(*object_sets, related=...), reported as attach_foreignkey is.
attach_foreignkeys(st, object_sets, related, present, ok) ==
  LET scan == ScanGroups(st, object_sets, related)
      request == Request(scan.model, "pk", scan.values, related)
      rows == Fetch(scan.model, "pk", scan.values, related, present)
      queryset == queryset_to_dict(rows, "pk", TRUE)
      set == SetGroups([objs |-> st, writes |-> <<>>], object_sets, queryset, 1)
  IN  IF scan.error # <<>>
      THEN [objs |-> st, fetches |-> <<>>, rows |-> <<>>, writes |-> <<>>,
            outcome |-> "ValueError", message |-> scan.error]
      ELSE IF NoValues(scan.values)
      THEN [objs |-> st, fetches |-> <<>>, rows |-> <<>>, writes |-> <<>>,
            outcome |-> "return", message |-> <<>>]
      ELSE IF ~ok
      THEN Raised(st, request)
      ELSE [objs |-> set.objs, fetches |-> <<request>>, rows |-> rows,
            writes |-> set.writes, outcome |-> "return", message |-> <<>>]

\* -------------------------------------------------------- attach_profile
\* What settings.AUTH_PROFILE_MODULE holds, as the parts split(".") yields (none when
\* the setting is missing or empty), and what models.get_model does with them.
Settings == {<<>>, <<"accounts">>, <<"accounts", "Profile">>, <<"accounts", "models", "Profile">>}
Loads == {"model", "None", "ImportError"}

\* A user as the ORM hands it out.
NewUser(pk) == [pk |-> pk, _profile_cache |-> Unset]

\* setattr on a row.
SetAttr(r, name, v) == [x \in DOMAIN r \cup {name} |-> IF x = name THEN v ELSE r[x]]

RECURSIVE ProfileLoop(_, _, _, _)
\* Lines 133-135: u._profile_cache = profiles.get(u.pk); u._profile_cache.user = u.
\* The second assignment raises AttributeError on None and ends the loop there.
ProfileLoop(st, users, profiles, i) ==
  IF i > Len(users) THEN st
  ELSE LET u == users[i]
           profile == Get(profiles, st.objs[u].pk)
           writes == Append(st.writes, <<u, "_profile_cache">>)
       IN  IF profile = NoneVal
           THEN [objs |-> [st.objs EXCEPT ![u]._profile_cache = profile],
                 writes |-> writes, outcome |-> "AttributeError"]
           ELSE ProfileLoop(
                  [objs |-> [st.objs EXCEPT ![u]._profile_cache = SetAttr(profile, "user", u)],
                   writes |-> writes, outcome |-> st.outcome],
                  users, profiles, i + 1)

\* Lines 111-128: the profile model cannot be had.
ProfileNotAvailable(setting, load) == setting = <<>> \/ Len(setting) # 2 \/ load # "model"

\* attach_profile(users), reported as attach_foreignkey is, with what it returns.
attach_profile(st, users, setting, load, present, ok) ==
  LET values == {st[users[i]].pk : i \in DOMAIN users}
      request == Request("Profile", "pk", values, <<>>)
      rows == Fetch("Profile", "pk", values, <<>>, present)
      profiles == queryset_to_dict(rows, "pk", TRUE)
      loop == ProfileLoop([objs |-> st, writes |-> <<>>, outcome |-> "return"], users, profiles, 1)
  IN  IF ProfileNotAvailable(setting, load)
      THEN [objs |-> st, fetches |-> <<>>, rows |-> <<>>, writes |-> <<>>,
            outcome |-> "SiteProfileNotAvailable", returned |-> <<>>]
      ELSE IF ~ok
      THEN [objs |-> st, fetches |-> <<request>>, rows |-> <<>>, writes |-> <<>>,
            outcome |-> "DatabaseError", returned |-> <<>>]
      ELSE [objs |-> loop.objs, fetches |-> <<request>>, rows |-> rows, writes |-> loop.writes,
            outcome |-> loop.outcome,
            returned |-> IF loop.outcome = "return" THEN <<users>> ELSE <<>>]

\* ------------------------------------------------------------ the inputs
\* The collections a call is given: the owners of a subset, in ascending order.
Collections == {Ascending(S) : S \in SUBSET Owners}
\* related: nothing, or one nested relation to select.
Relateds == {<<>>, <<"profile">>}
\* What the data source can answer to a request for values: the rows it holds
\* among them, or a failure.
Answers(values) ==
  {[ok |-> TRUE, present |-> P] : P \in SUBSET (values \ {Null})}
    \cup {[ok |-> FALSE, present |-> {}]}

\* The author_id columns of the owners: any keys or NULLs, the owners numbered in the
\* order of their author_id (the calls read each owner alone, so the numbering is free).
AuthorIds ==
  {a \in [Owners -> Keys \cup {Null}] : \A o \in Owners, p \in Owners : o < p => a[o] <= a[p]}

\* The (objects, field) pairs attach_foreignkeys is given, over the foreign keys of
\* the owners' model: none, one, two over collections of different owners, or three
\* over one collection with the third field free; Post.author is among their fields.
ForeignKeys == {AuthorField, ThreadField}
Pairs == {[objects |-> c, field |-> f] : c \in Collections, f \in ForeignKeys}
Doubles ==
  {gs \in {<<g, h>> : g \in Pairs, h \in Pairs} :
     Range(gs[1].objects) \cap Range(gs[2].objects) = {}}
Triples ==
  {<<[objects |-> c, field |-> AuthorField], [objects |-> c, field |-> AuthorField],
     [objects |-> c, field |-> f]>> : c \in Collections, f \in ForeignKeys}
ObjectSets ==
  {gs \in {<<>>} \cup {<<g>> : g \in Pairs} \cup Doubles \cup Triples :
     gs = <<>> \/ \E i \in DOMAIN gs : gs[i].field = AuthorField}

\* The slots of the owners of objects, before the call.
Slots(st, objects, accessor) == [i \in DOMAIN objects |-> st[objects[i]][accessor]]

Init ==
  /\ field \in {AuthorField, DetailField}
  /\ objs \in {[o \in Owners |-> NewOwner(o, IF field = AuthorField THEN a[o] ELSE Null)] :
                 a \in AuthorIds}
  /\ call = NoCall
  /\ qs = <<>>
  /\ result = EmptyDict

AttachForeignKey ==
  /\ call = NoCall
  /\ \E objects \in Collections, related \in Relateds :
     \E answer \in Answers(ScannedValues(objs, objects, Column(field), Accessor(field), related)) :
       LET r == attach_foreignkey(objs, objects, field, related, answer.present, answer.ok) IN
       /\ objs' = r.objs
       /\ call' = [op |-> "attach_foreignkey",
                   groups |-> <<[objects |-> objects, field |-> field]>>,
                   related |-> related, fetches |-> r.fetches, rows |-> r.rows,
                   writes |-> r.writes, outcome |-> r.outcome, message |-> r.message,
                   failed |-> r.fetches # <<>> /\ ~answer.ok,
                   before |-> <<Slots(objs, objects, Accessor(field))>>]
  /\ UNCHANGED <<field, qs, result>>

AttachForeignKeys ==
  /\ call = NoCall
  /\ field = AuthorField
  /\ \E object_sets \in ObjectSets, related \in Relateds :
     \E answer \in Answers(ScanGroups(objs, object_sets, related).values) :
       LET r == attach_foreignkeys(objs, object_sets, related, answer.present, answer.ok) IN
       /\ objs' = r.objs
       /\ call' = [op |-> "attach_foreignkeys", groups |-> object_sets,
                   related |-> related, fetches |-> r.fetches, rows |-> r.rows,
                   writes |-> r.writes, outcome |-> r.outcome, message |-> r.message,
                   failed |-> r.fetches # <<>> /\ ~answer.ok,
                   before |-> [i \in DOMAIN object_sets |->
                                 Slots(objs, object_sets[i].objects,
                                       CacheOf(object_sets[i].field.name))]]
  /\ UNCHANGED <<field, qs, result>>

\* The caller goes on to its next call: the observation of the last one is dropped.
NextCall ==
  /\ call # NoCall
  /\ call' = NoCall
  /\ UNCHANGED <<objs, field, qs, result>>

Next == AttachForeignKey \/ AttachForeignKeys \/ NextCall

Spec == Init /\ [][Next]_vars

\* --------------------------------------------- queryset_to_dict on its own
\* The rows a queryset can hold: any pk with any post_id, so that either key repeats.
DictRows ==
  {[kind |-> "rec", model |-> "Detail", pk |-> p, post_id |-> k, nested |-> FALSE] :
     p \in Keys, k \in Keys}
Querysets == UNION {[1..n -> DictRows] : n \in 0..MaxLen}

InitDict ==
  /\ qs \in Querysets
  /\ result = EmptyDict
  /\ objs = <<>>
  /\ field = DetailField
  /\ call = NoCall

ToDict ==
  /\ call = NoCall
  /\ \E key \in {"pk", "post_id"}, singular \in BOOLEAN :
       /\ result' = queryset_to_dict(qs, key, singular)
       /\ call' = [op |-> "queryset_to_dict", key |-> key, singular |-> singular]
  /\ UNCHANGED <<objs, field, qs>>

NextDict == ToDict

SpecDict == InitDict /\ [][NextDict]_vars

\* ----------------------------------------------- attach_profile on its own
InitProfile ==
  /\ objs = [o \in Owners |-> NewUser(o)]
  /\ field = DetailField
  /\ call = NoCall
  /\ qs = <<>>
  /\ result = EmptyDict

AttachProfile ==
  /\ call = NoCall
  /\ \E users \in Collections, setting \in Settings, load \in Loads :
     \E answer \in Answers({objs[users[i]].pk : i \in DOMAIN users}) :
       LET r == attach_profile(objs, users, setting, load, answer.present, answer.ok) IN
       /\ objs' = r.objs
       /\ call' = [op |-> "attach_profile", users |-> users,
                   setting |-> setting, load |-> load,
                   fetches |-> r.fetches, rows |-> r.rows, writes |-> r.writes,
                   outcome |-> r.outcome, returned |-> r.returned,
                   failed |-> r.fetches # <<>> /\ ~answer.ok]
  /\ UNCHANGED <<field, qs, result>>

NextProfile == AttachProfile \/ NextCall

SpecProfile == InitProfile /\ [][NextProfile]_vars

\* ------------------------------------------------- what the claims speak of
\* The cache slot a descriptor fills, the owner's value it is looked up by, and the
\* value of a row it is matched on.
SlotOf(f) ==
  IF f = DetailField THEN "_detail_cache"
  ELSE IF f = AuthorField THEN "_author_cache" ELSE "_thread_cache"
OwnerKey(o, f) ==
  IF f = DetailField THEN objs[o].pk
  ELSE IF f = AuthorField THEN objs[o].author_id ELSE objs[o].thread_id
RowKey(r, f) == IF f = DetailField THEN r.post_id ELSE r.pk

\* The rows of the last fetch that match key k.
Matching(f, k) == {j \in DOMAIN call.rows : RowKey(call.rows[j], f) = k}

\* Owner o's slot holds the fetched row matching its key, or None when none does.
Attached(o, f) ==
  LET slot == objs[o][SlotOf(f)]
      m == Matching(f, OwnerKey(o, f))
  IN  IF m = {} THEN slot = NoneVal ELSE \E j \in m : slot = call.rows[j]

\* The owners of group i the scan keeps: all with related given, else the unset ones.
ScannedOf(i) ==
  {k \in DOMAIN call.groups[i].objects : call.related # <<>> \/ call.before[i][k] = Unset}
\* Their foreign-key values.
KeysOf(i) == {OwnerKey(call.groups[i].objects[k], call.groups[i].field) : k \in ScannedOf(i)}
AllKeys == UNION {KeysOf(i) : i \in DOMAIN call.groups}

\* Every slot of every owner of the call is what it was before the call.
SlotsAsBefore ==
  \A i \in DOMAIN call.groups : \A k \in DOMAIN call.groups[i].objects :
    objs[call.groups[i].objects[k]][SlotOf(call.groups[i].field)] = call.before[i][k]

IsAttachForeignKey == call.op = "attach_foreignkey"
IsAttachForeignKeys == call.op = "attach_foreignkeys"

\* C1: after an attach_foreignkey call that issued a fetch and returned, every owner
\* of the collection has its slot set: to the fetched row whose lookup key is the
\* owner's foreign-key value (its pk for the reverse one-to-one), or to None when no
\* fetched row matches; none is left unset.
C1_EverySlotSet ==
  (IsAttachForeignKey /\ call.fetches # <<>> /\ call.outcome = "return") =>
    \A k \in DOMAIN call.groups[1].objects :
      LET o == call.groups[1].objects[k]
          f == call.groups[1].field
      IN  objs[o][SlotOf(f)] # Unset /\ Attached(o, f)

\* C1's case: a fetch was made, one owner got its row and another got None.
C1_Witness ==
  /\ IsAttachForeignKey /\ call.fetches # <<>> /\ call.outcome = "return"
  /\ \E k \in DOMAIN call.groups[1].objects, l \in DOMAIN call.groups[1].objects :
       /\ objs[call.groups[1].objects[k]][SlotOf(call.groups[1].field)].kind = "rec"
       /\ objs[call.groups[1].objects[l]][SlotOf(call.groups[1].field)] = NoneVal
       /\ call.before[1][l] = Unset

\* C2: one attach_foreignkey call makes at most one fetch, and the keys it asks for
\* are exactly the distinct foreign-key values of the scanned owners (those whose
\* slot was unset, or all of them when related is given).
C2_AtMostOneFetch ==
  IsAttachForeignKey =>
    /\ Len(call.fetches) <= 1
    /\ call.fetches # <<>> => call.fetches[1].values = KeysOf(1)

\* C2's case: a fetch for a collection that mixes set and unset slots, whose keys
\* leave out the key of an owner that was skipped.
C2_Witness ==
  /\ IsAttachForeignKey /\ Len(call.fetches) = 1
  /\ \E k \in DOMAIN call.groups[1].objects :
       /\ k \notin ScannedOf(1)
       /\ OwnerKey(call.groups[1].objects[k], call.groups[1].field)
            \notin call.fetches[1].values

\* The groups of the call all target one model.
SameModel ==
  \A i \in DOMAIN call.groups, j \in DOMAIN call.groups :
    call.groups[i].field.model = call.groups[j].field.model

\* C3: attach_foreignkeys over groups that target one model, with some scanned value,
\* makes exactly one fetch, for the union of the groups' scanned values; when it
\* returns, every owner of every group has its slot set from the rows of that fetch.
C3_OneFetchForAllGroups ==
  (IsAttachForeignKeys /\ SameModel /\ AllKeys # {}) =>
    /\ Len(call.fetches) = 1
    /\ call.fetches[1].values = AllKeys
    /\ call.outcome = "return" =>
         \A i \in DOMAIN call.groups : \A k \in DOMAIN call.groups[i].objects :
           Attached(call.groups[i].objects[k], call.groups[i].field)

\* C3's case: two groups, each bringing a key the other lacks, served by one fetch
\* that attached a row.
C3_Witness ==
  /\ IsAttachForeignKeys /\ Len(call.groups) = 2 /\ call.outcome = "return"
  /\ Len(call.fetches) = 1
  /\ KeysOf(1) \ KeysOf(2) # {} /\ KeysOf(2) \ KeysOf(1) # {}
  /\ \E k \in DOMAIN call.groups[2].objects :
       objs[call.groups[2].objects[k]]["_author_cache"].kind = "rec"

\* The first group whose model differs from the first group's.
FirstDiffering ==
  CHOOSE d \in DOMAIN call.groups :
    /\ call.groups[d].field.model # call.groups[1].field.model
    /\ \A e \in 1..(d - 1) : call.groups[e].field.model = call.groups[1].field.model

\* C4: attach_foreignkeys over groups that target two different models fails with the
\* ValueError that names both, wherever the first differing group stands, before any
\* fetch is made and with no slot changed.
C4_ModelMismatch ==
  (IsAttachForeignKeys /\ ~SameModel) =>
    /\ call.outcome = "ValueError"
    /\ call.message = <<call.groups[1].field.model, call.groups[FirstDiffering].field.model>>
    /\ call.fetches = <<>>
    /\ call.writes = <<>>
    /\ SlotsAsBefore

\* C4's case: the differing group is the third, after two groups with owners to scan.
C4_Witness ==
  /\ IsAttachForeignKeys /\ call.outcome = "ValueError"
  /\ Len(call.groups) = 3 /\ FirstDiffering = 3
  /\ KeysOf(1) # {}

\* C5: when no value is scanned (no owner, or related empty and every slot already
\* set), attach_foreignkey returns at once: no fetch, no slot written.
C5_NothingToFetch ==
  (IsAttachForeignKey /\ KeysOf(1) = {}) =>
    /\ call.outcome = "return"
    /\ call.fetches = <<>>
    /\ call.writes = <<>>
    /\ SlotsAsBefore

\* C5's case: a collection with owners, all of them with their slot already set.
C5_Witness ==
  /\ IsAttachForeignKey /\ call.related = <<>>
  /\ call.groups[1].objects # <<>>
  /\ \A k \in DOMAIN call.groups[1].objects : call.before[1][k] # Unset
  /\ call.fetches = <<>>

\* The slots of the call's owners were filled by a call without related: None, or a
\* row fetched without its nested relations.
ShallowBefore ==
  \A k \in DOMAIN call.before[1] :
    /\ call.before[1][k] # Unset
    /\ call.before[1][k].kind = "rec" => ~call.before[1][k].nested

\* C6: a call with related given, on owners whose slots a call without related has
\* filled, makes a new fetch for every owner's foreign-key value and overwrites each
\* slot with what that fetch returned.
C6_RefetchWithRelated ==
  (IsAttachForeignKey /\ call.related # <<>> /\ call.groups[1].objects # <<>> /\ ShallowBefore) =>
    /\ Len(call.fetches) = 1
    /\ call.fetches[1].related = call.related
    /\ call.fetches[1].values =
         {OwnerKey(call.groups[1].objects[k], call.groups[1].field) :
            k \in DOMAIN call.groups[1].objects}
    /\ call.outcome = "return" =>
         \A k \in DOMAIN call.groups[1].objects :
           Attached(call.groups[1].objects[k], call.groups[1].field)

\* C6's case: every slot held a row without nested relations and now holds the row
\* the second fetch returned, with them.
C6_Witness ==
  /\ IsAttachForeignKey /\ call.related # <<>> /\ call.outcome = "return"
  /\ Len(call.groups[1].objects) > 1
  /\ \A k \in DOMAIN call.groups[1].objects :
       /\ call.before[1][k].kind = "rec" /\ ~call.before[1][k].nested
       /\ objs[call.groups[1].objects[k]][SlotOf(call.groups[1].field)].kind = "rec"
       /\ objs[call.groups[1].objects[k]][SlotOf(call.groups[1].field)].nested

\* C9: in a call without related, an owner skipped by the scan because its slot held
\* a related record still holds a record for its foreign-key value after the call,
\* also when that value is not among the values fetched.
C9_SkippedOwnerKeepsRecord ==
  (IsAttachForeignKey /\ call.related = <<>> /\ call.outcome = "return") =>
    \A k \in DOMAIN call.groups[1].objects :
      LET o == call.groups[1].objects[k]
          f == call.groups[1].field
      IN  (/\ call.before[1][k].kind = "rec"
           /\ call.fetches # <<>>
           /\ OwnerKey(o, f) \notin call.fetches[1].values)
          => /\ objs[o][SlotOf(f)].kind = "rec"
             /\ RowKey(objs[o][SlotOf(f)], f) = OwnerKey(o, f)

\* C10: when the fetch of attach_foreignkey or attach_foreignkeys fails, the failure
\* leaves the call as it is, the fetch is not made again, and every slot is what it
\* was before the call.
C10_FailedFetch ==
  ((IsAttachForeignKey \/ IsAttachForeignKeys) /\ call.failed) =>
    /\ call.outcome = "DatabaseError"
    /\ Len(call.fetches) = 1
    /\ call.writes = <<>>
    /\ SlotsAsBefore

\* C10's case: the fetch of a two-group call failed, some owner's slot set before.
C10_Witness ==
  /\ IsAttachForeignKeys /\ call.failed /\ Len(call.groups) = 2
  /\ \E k \in DOMAIN call.before[1] : call.before[1][k].kind = "rec"
  /\ call.outcome = "DatabaseError"

\* The first place of qs whose row has key k.
FirstAt(key, k) == CHOOSE i \in DOMAIN qs : qs[i][key] = k /\ \A j \in 1..(i - 1) : qs[j][key] # k

\* C7: queryset_to_dict maps, with singular, each key to the first row met with that
\* key, later rows with the same key ignored; without singular, each key to the list
\* of all rows with that key in the order met; an empty input gives an empty mapping.
C7_FirstOrAll ==
  call.op = "queryset_to_dict" =>
    /\ DOMAIN result = {qs[i][call.key] : i \in DOMAIN qs}
    /\ qs = <<>> => result = EmptyDict
    /\ \A k \in DOMAIN result :
         IF call.singular
         THEN result[k] = qs[FirstAt(call.key, k)]
         ELSE result[k] = SelectSeq(qs, LAMBDA r : r[call.key] = k)

\* C7's case: singular, and a key met twice with different rows: the first is kept.
C7_Witness ==
  /\ call.op = "queryset_to_dict" /\ call.singular
  /\ \E i \in DOMAIN qs, j \in DOMAIN qs :
       /\ i < j /\ qs[i][call.key] = qs[j][call.key] /\ qs[i] # qs[j]
       /\ result[qs[j][call.key]] = qs[i]
       /\ \A h \in 1..(i - 1) : qs[h][call.key] # qs[i][call.key]

\* C8: attach_profile, given the profile model and a fetch that succeeds, completes
\* for any collection of users, also one with a user that has no profile row: it
\* returns the collection, each user's slot holds the profile whose pk is the user's
\* (None when there is none), and each such profile's user is that user.
C8_ProfilesAttached ==
  (call.op = "attach_profile" /\ Len(call.setting) = 2 /\ call.load = "model" /\ ~call.failed) =>
    /\ call.outcome = "return"
    /\ call.returned = <<call.users>>
    /\ \A i \in DOMAIN call.users :
         LET u == call.users[i]
             slot == objs[u]._profile_cache
         IN  IF \E j \in DOMAIN call.rows : call.rows[j].pk = objs[u].pk
             THEN slot.kind = "rec" /\ slot.pk = objs[u].pk /\ slot.user = u
             ELSE slot = NoneVal

====
